---- MODULE Spec2Model ----
(***************************************************************************)
(* Model of scripts/generate_app_icons.py: the icon rendering pipeline.    *)
(*                                                                         *)
(* Logical sizes are Python numbers that are multiples of 0.5 (20, 83.5,   *)
(* 1024).  They are modelled as integers counting HALF points, so 83.5 is  *)
(* 167 and 512 is 1024.  Pixel dimensions, scales and radii are integers   *)
(* in pixels.  Text (file names, manifest strings) is modelled as a        *)
(* sequence of one-character strings, so that formatting, substring        *)
(* replacement and parsing are computed rather than assumed.               *)
(***************************************************************************)
EXTENDS Integers, Sequences, FiniteSets, TLC

\* ------------------------------------------------------------ bounds
\* The source image sizes tried are the fixed set below plus
\* 2732 + 683 * k for k in 0 .. MaxSrcExtra.
MaxSrcExtra == 1

\* Width/height of the candidate source images: below the minimum, at the
\* minimum, around the launch-screen half canvases (1366, 2732, 4098), and
\* sizes that do not scale to whole pixels.
SourceDims ==
    {1023, 1024, 1366, 1367, 2000} \cup {2732 + 683 * k : k \in 0..MaxSrcExtra}

\* ------------------------------------------------------------ text
Abs(n) == IF n < 0 THEN -n ELSE n

Min2(a, b) == IF a <= b THEN a ELSE b

DigitChars == <<"0", "1", "2", "3", "4", "5", "6", "7", "8", "9">>

\* str(n) of a non-negative Python int
RECURSIVE PyStr(_)
PyStr(n) ==
    IF n < 10 THEN <<DigitChars[n + 1]>>
    ELSE PyStr(n \div 10) \o <<DigitChars[(n % 10) + 1]>>

IsPrefix(p, s) == Len(p) <= Len(s) /\ SubSeq(s, 1, Len(p)) = p

\* s.replace(old, new): non-overlapping occurrences, left to right
RECURSIVE PyReplace(_, _, _)
PyReplace(s, old, new) ==
    IF s = <<>> THEN <<>>
    ELSE IF IsPrefix(old, s)
         THEN new \o PyReplace(SubSeq(s, Len(old) + 1, Len(s)), old, new)
         ELSE <<Head(s)>> \o PyReplace(Tail(s), old, new)

\* int(x) of a non-negative number given in halves: truncation
PyInt(halves) == halves \div 2

\* ------------------------------------------------------------ paths, table
output_dir_ios == "AppIconIOS.appiconset"

output_dir_macos == "AppIconMacOS.appiconset"

launch_screen_dir == "LaunchScreen.imageset"

OutputDirs == {output_dir_ios, output_dir_macos, launch_screen_dir}

\* sizes["ios"], sizes["macos"]; size in half points
sizes ==
    [ios |->
        << [size |-> <<40, 40>>,     scales |-> <<2, 3>>,    idiom |-> "iphone"],
           [size |-> <<58, 58>>,     scales |-> <<1, 2, 3>>, idiom |-> "iphone"],
           [size |-> <<80, 80>>,     scales |-> <<2, 3>>,    idiom |-> "iphone"],
           [size |-> <<120, 120>>,   scales |-> <<2, 3>>,    idiom |-> "iphone"],
           [size |-> <<152, 152>>,   scales |-> <<1, 2>>,    idiom |-> "ipad"],
           [size |-> <<167, 167>>,   scales |-> <<2>>,       idiom |-> "ipad"],
           [size |-> <<2048, 2048>>, scales |-> <<1>>,       idiom |-> "ios-marketing"] >>,
     macos |->
        << [size |-> <<32, 32>>,     scales |-> <<1, 2>>, idiom |-> "mac"],
           [size |-> <<64, 64>>,     scales |-> <<1, 2>>, idiom |-> "mac"],
           [size |-> <<256, 256>>,   scales |-> <<1, 2>>, idiom |-> "mac"],
           [size |-> <<512, 512>>,   scales |-> <<1, 2>>, idiom |-> "mac"],
           [size |-> <<1024, 1024>>, scales |-> <<1, 2>>, idiom |-> "mac"] >>]

\* size_info.get("platform"): no entry of the table has the key
PlatformOf(size_info) ==
    IF "platform" \in DOMAIN size_info THEN size_info.platform ELSE "None"

\* ------------------------------------------------------------ source check
\* the test of the size validation
SourceTooSmallBoth(w, h) == w < 1024 /\ h < 1024

SourceTooSmall(w, h) == w < 1024 \/ h < 1024

\* ------------------------------------------------------------ save_icon
\* icon_size with the truncation applied to the logical size, not the product
IconSizeTruncFirst(size, scale) == <<PyInt(size[1]) * scale, PyInt(size[2]) * scale>>

\* icon_size = (int(size[0] * scale), int(size[1] * scale))
IconSize(size, scale) == <<PyInt(size[1] * scale), PyInt(size[2] * scale)>>

\* if idiom == "mac"
IsMacIdiom(idiom) == idiom = "mac"

CornerRadiusQuarter(icon_size) == Min2(icon_size[1], icon_size[2]) \div 4

\* corner_radius = int(min(icon_size) * 0.2)
CornerRadius(icon_size) == (Min2(icon_size[1], icon_size[2]) * 2) \div 10

\* add_rounded_corners: the mask has image.size, ImageOps.fit returns an
\* image of mask.size, putalpha replaces the alpha channel by the mask
add_rounded_corners(image, corner_radius) ==
    [image EXCEPT !.rounded = TRUE, !.radius = corner_radius]

SizeStr(size) == PyStr(PyInt(size[1])) \o <<"x">> \o PyStr(PyInt(size[2]))

ScaleStr(scale) == PyStr(scale) \o <<"x">>

IconFilenameNoScale(size, scale) ==
    PyReplace(SizeStr(size) \o <<".", "p", "n", "g">>, <<".", "0">>, <<>>)

\* icon_filename = f"{int(size[0])}x{int(size[1])}@{scale}x.png".replace(".0", "")
IconFilename(size, scale) ==
    PyReplace(SizeStr(size) \o <<"@">> \o ScaleStr(scale) \o <<".", "p", "n", "g">>,
              <<".", "0">>, <<>>)

DimensionMismatchAt1x(size, scale, icon_size) ==
    size = <<1024, 1024>> /\ scale = 1 /\ icon_size # <<1024, 1024>>

\* if size == (512, 512) and scale == 2: if icon_size != (1024, 1024): raise
DimensionMismatch(size, scale, icon_size) ==
    size = <<1024, 1024>> /\ scale = 2 /\ icon_size # <<1024, 1024>>

\* image_entry, with "platform" only when platform is truthy
ImageEntry(size, scale, idiom, platform) ==
    IF platform # "None"
    THEN [idiom |-> idiom, size |-> SizeStr(size), scale |-> ScaleStr(scale),
          filename |-> IconFilename(size, scale), platform |-> platform]
    ELSE [idiom |-> idiom, size |-> SizeStr(size), scale |-> ScaleStr(scale),
          filename |-> IconFilename(size, scale)]

\* icon_image.save(icon_path): a file of the same path is replaced
SaveFile(fs, dir, name, image) ==
    {f \in fs : ~(f.dir = dir /\ f.name = name)}
        \cup {[dir |-> dir, name |-> name, width |-> image.width,
               height |-> image.height, rounded |-> image.rounded,
               radius |-> image.radius]}

\* save_icon(size, scale, output_dir, idiom, contents, platform): the
\* outcome on the file system fs and on the manifest accumulator contents
save_icon(fs, size, scale, output_dir, idiom, contents, platform) ==
    LET icon_size == IconSize(size, scale)
        resized == [width |-> icon_size[1], height |-> icon_size[2],
                    rounded |-> FALSE, radius |-> 0]
        icon_image == IF IsMacIdiom(idiom)
                      THEN add_rounded_corners(resized, CornerRadius(icon_size))
                      ELSE resized
        icon_filename == IconFilename(size, scale)
    IN  IF DimensionMismatch(size, scale, icon_size)
        THEN [raised |-> TRUE, files |-> fs, contents |-> contents]
        ELSE [raised |-> FALSE,
              files |-> SaveFile(fs, output_dir, icon_filename, icon_image),
              contents |-> Append(contents,
                                  ImageEntry(size, scale, idiom, platform))]

\* the nested loops: for size_info in table: for scale in size_info["scales"]
NextPosFirstScaleOnly(table, i, j) == <<i + 1, 1>>

NextPos(table, i, j) ==
    IF j < Len(table[i].scales) THEN <<i, j + 1>> ELSE <<i + 1, 1>>

\* ------------------------------------------------------------ launch screen
\* screen_sizes (all square) and scale_labels of create_launch_screen
screen_sizes == <<2732, 5464, 8196>>

LaunchFilenames == <<"LaunchScreen@1x.png", "LaunchScreen@2x.png", "LaunchScreen@3x.png">>

\* round_aspect of Image.thumbnail: max(min(floor, ceil, key=key), 1), where
\* fl is the floor, exact says the number is whole, and ceilCloser says that
\* the key of the ceiling is strictly smaller than the key of the floor
RoundAspect(fl, exact, ceilCloser) ==
    LET ce == IF exact THEN fl ELSE fl + 1
        pick == IF ceilCloser THEN ce ELSE fl
    IN  IF pick < 1 THEN 1 ELSE pick

\* im.thumbnail((x, y)) on an image of w x h: the resulting size.  The
\* image is never enlarged; otherwise one side takes the bound and the
\* other is the floor or ceiling of the proportional value, whichever has
\* the aspect ratio nearer to w / h.
Thumbnail(w, h, x, y) ==
    IF x >= w /\ y >= h THEN <<w, h>>
    ELSE IF x * h >= w * y
         THEN LET fl == (y * w) \div h
                  exact == (y * w) % h = 0
              IN  <<RoundAspect(fl, exact,
                        Abs(w * y - (fl + 1) * h) < Abs(w * y - fl * h)), y>>
         ELSE LET fl == (x * h) \div w
                  exact == (x * h) % w = 0
              IN  <<x, RoundAspect(fl, exact,
                        fl # 0 /\ Abs(w * (fl + 1) - x * h) * fl
                                    < Abs(w * fl - x * h) * (fl + 1))>>

ThumbnailBoundFullCanvas(screen_size) == screen_size

\* the bound given to thumbnail, per axis: screen_size[0] // 2
ThumbnailBound(screen_size) == screen_size \div 2

\* icon_position, per axis: (background.width - resized.width) // 2
IconPosition(background, resized) == (background - resized) \div 2

\* launch_screen_contents["images"]
launch_screen_contents ==
    << [idiom |-> "universal", filename |-> "LaunchScreen@1x.png", scale |-> "1x"],
       [idiom |-> "universal", filename |-> "LaunchScreen@2x.png", scale |-> "2x"],
       [idiom |-> "universal", filename |-> "LaunchScreen@3x.png", scale |-> "3x"] >>

\* ------------------------------------------------------------ state
VARIABLES
    pc,             \* position of the script
    source,         \* the file at input_image_path: [exists, width, height]
    error,          \* the exception that ended the script, or "none"
    i, j,           \* size_info index and scale index of the running loop
    k,              \* index of the launch screen being composed
    files,          \* icon files on disk
    launch_files,   \* launch screen files on disk
    contents_ios,   \* contents_ios["images"]
    contents_macos, \* contents_macos["images"]
    manifests       \* per output directory, the documents written to Contents.json

vars == <<pc, source, error, i, j, k, files, launch_files, contents_ios,
          contents_macos, manifests>>

Init ==
    /\ pc = "load"
    /\ source \in [exists : {TRUE}, width : SourceDims, height : SourceDims]
                    \cup {[exists |-> FALSE, width |-> 0, height |-> 0]}
    /\ error = "none"
    /\ i = 1
    /\ j = 1
    /\ k = 1
    /\ files = {}
    /\ launch_files = {}
    /\ contents_ios = <<>>
    /\ contents_macos = <<>>
    /\ manifests = [d \in OutputDirs |-> <<>>]

\* generate_contents_json(output_dir, contents)
generate_contents_json(output_dir, contents) ==
    manifests' = [manifests EXCEPT ![output_dir] = Append(@, contents)]

\* lines 30-49: makedirs, Image.open, convert, size validation
LoadSource ==
    /\ pc = "load"
    /\ IF ~source.exists
       THEN /\ pc' = "failed"
            /\ error' = "FileNotFoundError"
       ELSE IF SourceTooSmall(source.width, source.height)
            THEN /\ pc' = "failed"
                 /\ error' = "ValueError: source too small"
            ELSE /\ pc' = "ios"
                 /\ error' = error
    /\ UNCHANGED <<source, i, j, k, files, launch_files, contents_ios,
                   contents_macos, manifests>>

\* one iteration of the iOS loops: save_icon(size, scale, output_dir_ios, ...)
SaveIconIOS ==
    /\ pc = "ios"
    /\ LET size_info == sizes.ios[i]
           r == save_icon(files, size_info.size, size_info.scales[j],
                          output_dir_ios, size_info.idiom, contents_ios,
                          PlatformOf(size_info))
           n == NextPos(sizes.ios, i, j)
       IN  IF r.raised
           THEN /\ pc' = "failed"
                /\ error' = "ValueError: 512x512@2x"
                /\ UNCHANGED <<i, j, files, contents_ios>>
           ELSE /\ files' = r.files
                /\ contents_ios' = r.contents
                /\ error' = error
                /\ IF n[1] > Len(sizes.ios)
                   THEN pc' = "ios_contents" /\ i' = 1 /\ j' = 1
                   ELSE pc' = pc /\ i' = n[1] /\ j' = n[2]
    /\ UNCHANGED <<source, k, launch_files, contents_macos, manifests>>

\* line 117: generate_contents_json(output_dir_ios, contents_ios)
GenerateContentsIOS ==
    /\ pc = "ios_contents"
    /\ generate_contents_json(output_dir_ios, contents_ios)
    /\ pc' = "macos"
    /\ UNCHANGED <<source, error, i, j, k, files, launch_files, contents_ios,
                   contents_macos>>

\* one iteration of the macOS loops; the manifest call after them (line 128)
\* is commented out, so the script goes on to the launch screens
SaveIconMacOS ==
    /\ pc = "macos"
    /\ LET size_info == sizes.macos[i]
           r == save_icon(files, size_info.size, size_info.scales[j],
                          output_dir_macos, size_info.idiom, contents_macos,
                          "None")
           n == NextPos(sizes.macos, i, j)
       IN  IF r.raised
           THEN /\ pc' = "failed"
                /\ error' = "ValueError: 512x512@2x"
                /\ UNCHANGED <<i, j, files, contents_macos>>
           ELSE /\ files' = r.files
                /\ contents_macos' = r.contents
                /\ error' = error
                /\ IF n[1] > Len(sizes.macos)
                   THEN pc' = "launch" /\ i' = 1 /\ j' = 1
                   ELSE pc' = pc /\ i' = n[1] /\ j' = n[2]
    /\ UNCHANGED <<source, k, launch_files, contents_ios, manifests>>

\* one iteration of the loop of create_launch_screen
CreateLaunchScreen ==
    /\ pc = "launch"
    /\ LET screen == screen_sizes[k]
           resized == Thumbnail(source.width, source.height,
                                ThumbnailBound(screen), ThumbnailBound(screen))
           icon_position == <<IconPosition(screen, resized[1]),
                              IconPosition(screen, resized[2])>>
       IN  launch_files' =
               {f \in launch_files : f.name # LaunchFilenames[k]}
                   \cup {[name |-> LaunchFilenames[k], width |-> screen,
                          height |-> screen, icon_width |-> resized[1],
                          icon_height |-> resized[2],
                          icon_position |-> icon_position]}
    /\ IF k < Len(screen_sizes)
       THEN k' = k + 1 /\ pc' = pc
       ELSE k' = k /\ pc' = "launch_contents"
    /\ UNCHANGED <<source, error, i, j, files, contents_ios, contents_macos,
                   manifests>>

\* line 175: generate_contents_json(launch_screen_dir, launch_screen_contents)
GenerateContentsLaunch ==
    /\ pc = "launch_contents"
    /\ generate_contents_json(launch_screen_dir, launch_screen_contents)
    /\ pc' = "done"
    /\ UNCHANGED <<source, error, i, j, k, files, launch_files, contents_ios,
                   contents_macos>>

Next ==
    \/ LoadSource
    \/ SaveIconIOS
    \/ GenerateContentsIOS
    \/ SaveIconMacOS
    \/ CreateLaunchScreen
    \/ GenerateContentsLaunch

Spec == Init /\ [][Next]_vars

\* ------------------------------------------------------------ for the claims
\* the (size, scale) pairs of a table in iteration order
RECURSIVE PairsOf(_)
PairsOf(table) ==
    IF table = <<>> THEN <<>>
    ELSE [n \in 1..Len(Head(table).scales) |->
             [size |-> Head(table).size, scale |-> Head(table).scales[n],
              idiom |-> Head(table).idiom]]
         \o PairsOf(Tail(table))

\* the two icon directories with their table and their accumulator
IconSets ==
    { [dir |-> output_dir_ios, pairs |-> PairsOf(sizes.ios), contents |-> contents_ios],
      [dir |-> output_dir_macos, pairs |-> PairsOf(sizes.macos),
       contents |-> contents_macos] }

FilesIn(dir) == {f \in files : f.dir = dir}

\* round(x) of Python for x >= 0 given in halves: ties go to the even integer
PyRound(halves) ==
    IF halves % 2 = 0 THEN halves \div 2
    ELSE IF (halves \div 2) % 2 = 0 THEN halves \div 2 ELSE (halves \div 2) + 1

\* a logical size written as the claims describe it: whole sizes without
\* ".0", fractional sizes with their decimal
SizeText(halves) ==
    IF halves % 2 = 0 THEN PyStr(halves \div 2)
    ELSE PyStr(halves \div 2) \o <<".", "5">>

ExpectedFilename(size, scale) ==
    SizeText(size[1]) \o <<"x">> \o SizeText(size[2]) \o <<"@">>
        \o PyStr(scale) \o <<"x", ".", "p", "n", "g">>

Contains(s, sub) == \E n \in 1..Len(s) : IsPrefix(sub, SubSeq(s, n, Len(s)))

\* reading numbers back from manifest strings
DigitVal(c) == CHOOSE d \in 0..9 : DigitChars[d + 1] = c

RECURSIVE ParseNat(_)
ParseNat(s) ==
    IF s = <<>> THEN 0
    ELSE 10 * ParseNat(SubSeq(s, 1, Len(s) - 1)) + DigitVal(s[Len(s)])

FirstIndex(s, c) == CHOOSE n \in 1..Len(s) : s[n] = c /\ \A m \in 1..(n - 1) : s[m] # c

\* a decimal number with at most one digit after the point, in halves
ParseHalves(s) ==
    IF \E n \in 1..Len(s) : s[n] = "."
    THEN LET d == FirstIndex(s, ".")
         IN  2 * ParseNat(SubSeq(s, 1, d - 1))
                 + (IF SubSeq(s, d + 1, Len(s)) = <<"5">> THEN 1 ELSE 0)
    ELSE 2 * ParseNat(s)

\* "WxH" -> <<W, H>> in halves; "Nx" -> N
ParseSize(s) ==
    LET x == FirstIndex(s, "x")
    IN  <<ParseHalves(SubSeq(s, 1, x - 1)), ParseHalves(SubSeq(s, x + 1, Len(s)))>>

ParseScale(s) == ParseNat(SubSeq(s, 1, Len(s) - 1))

\* C1: after a run that ends without error, every (size, scale) pair of the
\* iOS and macOS tables has its file in the platform's directory, with
\* pixel dimensions round(logical * scale), the 83.5 entry included.
C1_FilesHaveRoundedDimensions ==
    pc = "done" =>
        \A s \in IconSets : \A n \in DOMAIN s.pairs :
            \E f \in FilesIn(s.dir) :
                /\ f.name = IconFilename(s.pairs[n].size, s.pairs[n].scale)
                /\ f.width = PyRound(s.pairs[n].size[1] * s.pairs[n].scale)
                /\ f.height = PyRound(s.pairs[n].size[2] * s.pairs[n].scale)

C1_Witness ==
    /\ pc = "done"
    /\ \E f \in FilesIn(output_dir_ios) :
           f.name = IconFilename(<<167, 167>>, 2) /\ f.width = 167 /\ f.height = 167

\* C2: every file save_icon writes is named "{w}x{h}@{scale}x.png" for a
\* pair of its directory's table, whole sizes without ".0" and fractional
\* sizes with their decimal; the 83.5 entry is under a name containing "83.5".
C2_FilenameKeepsFraction ==
    \A s \in IconSets :
        /\ \A f \in FilesIn(s.dir) :
               \E n \in DOMAIN s.pairs :
                   f.name = ExpectedFilename(s.pairs[n].size, s.pairs[n].scale)
        /\ \A n \in 1..Len(s.contents) :
               s.pairs[n].size = <<167, 167>> =>
                   \E f \in FilesIn(s.dir) : Contains(f.name, <<"8", "3", ".", "5">>)

\* C3: when the run ends without error, each of the three output
\* directories has had its manifest written exactly once.
C3_EveryDirectoryHasOneManifest ==
    pc = "done" => \A d \in OutputDirs : Len(manifests[d]) = 1

\* C4: when an icon directory's manifest has been written, every pair of
\* its table has been rendered, the manifest holds one record per pair in
\* iteration order (13 for iOS), and nothing was appended afterwards.
C4_ManifestCompleteWhenWritten ==
    /\ Len(PairsOf(sizes.ios)) = 13
    /\ \A s \in IconSets :
           manifests[s.dir] # <<>> =>
               /\ Len(manifests[s.dir]) = 1
               /\ Len(manifests[s.dir][1]) = Len(s.pairs)
               /\ \A n \in DOMAIN s.pairs :
                      /\ manifests[s.dir][1][n].filename
                             = IconFilename(s.pairs[n].size, s.pairs[n].scale)
                      /\ manifests[s.dir][1][n].scale = ScaleStr(s.pairs[n].scale)
                      /\ manifests[s.dir][1][n].idiom = s.pairs[n].idiom
                      /\ \E f \in FilesIn(s.dir) :
                             f.name = IconFilename(s.pairs[n].size, s.pairs[n].scale)
               /\ s.contents = manifests[s.dir][1]

C4_Witness ==
    /\ manifests[output_dir_ios] # <<>>
    /\ Len(manifests[output_dir_ios][1]) = 13
    /\ pc = "done"

\* C5: the 512x512 @ 2 render either writes a file of exactly 1024x1024
\* pixels or fails with the dimension error; the error is raised only for
\* that pair, and then its file and record are absent and nothing is
\* rendered or written afterwards.
C5_512At2xExactOrError ==
    LET name == IconFilename(<<1024, 1024>>, 2)
    IN  /\ \A f \in FilesIn(output_dir_macos) :
               f.name = name => f.width = 1024 /\ f.height = 1024
        /\ pc \in {"launch", "launch_contents", "done"} =>
               \E f \in FilesIn(output_dir_macos) : f.name = name
        /\ error = "ValueError: 512x512@2x" =>
               /\ pc = "failed"
               /\ Len(contents_ios) = Len(PairsOf(sizes.ios))
               /\ sizes.macos[i].size = <<1024, 1024>>
               /\ sizes.macos[i].scales[j] = 2
               /\ \A f \in FilesIn(output_dir_macos) : f.name # name
               /\ \A n \in 1..Len(contents_macos) : contents_macos[n].filename # name
               /\ launch_files = {}
               /\ manifests[output_dir_macos] = <<>>
               /\ manifests[launch_screen_dir] = <<>>

C5_Witness ==
    \E f \in FilesIn(output_dir_macos) :
        /\ f.name = IconFilename(<<1024, 1024>>, 2)
        /\ f.width = 1024
        /\ f.height = 1024

\* C6: with the source missing, or narrower or lower than 1024 pixels, the
\* run fails before any render: no icon, no launch screen, no manifest.
C6_BadSourceWritesNothing ==
    (~source.exists \/ source.width < 1024 \/ source.height < 1024) =>
        /\ pc \in {"load", "failed"}
        /\ pc = "failed" =>
               error = (IF source.exists THEN "ValueError: source too small"
                        ELSE "FileNotFoundError")
        /\ files = {}
        /\ launch_files = {}
        /\ contents_ios = <<>>
        /\ contents_macos = <<>>
        /\ \A d \in OutputDirs : manifests[d] = <<>>

C6_Witness ==
    /\ pc = "failed"
    /\ source.exists
    /\ source.width >= 1024
    /\ source.height < 1024

\* a launch screen whose pasted copy fits in half the canvas and is centred
LaunchFitsAndCentred(f) ==
    /\ 2 * f.icon_width <= f.width
    /\ 2 * f.icon_height <= f.height
    /\ Abs(2 * f.icon_position[1] + f.icon_width - f.width) <= 2
    /\ Abs(2 * f.icon_position[2] + f.icon_height - f.height) <= 2

MaskedExactlyOnMac ==
    /\ \A n \in DOMAIN sizes.macos : IsMacIdiom(sizes.macos[n].idiom)
    /\ \A n \in DOMAIN sizes.ios : ~IsMacIdiom(sizes.ios[n].idiom)
    /\ \A s \in IconSets : \A f \in FilesIn(s.dir) :
           /\ f.rounded = (s.dir = output_dir_macos)
           /\ \E n \in DOMAIN s.pairs :
                  /\ f.name = IconFilename(s.pairs[n].size, s.pairs[n].scale)
                  /\ <<f.width, f.height>>
                         = IconSize(s.pairs[n].size, s.pairs[n].scale)

C9_RecordsMatchFiles ==
    \A s \in IconSets : \A n \in 1..Len(s.contents) :
        \E f \in FilesIn(s.dir) :
            /\ f.name = s.contents[n].filename
            /\ f.width = PyRound(ParseSize(s.contents[n].size)[1]
                                     * ParseScale(s.contents[n].scale))
            /\ f.height = PyRound(ParseSize(s.contents[n].size)[2]
                                      * ParseScale(s.contents[n].scale))

\* C10: in each directory the file names of the table's pairs are pairwise
\* distinct, so no render replaces an earlier file and the directory holds
\* as many files as pairs were rendered (13 for iOS, 10 for macOS).
C10_FilenamesDistinct ==
    /\ \A s \in IconSets :
           /\ \A m, n \in DOMAIN s.pairs :
                  m # n => IconFilename(s.pairs[m].size, s.pairs[m].scale)
                               # IconFilename(s.pairs[n].size, s.pairs[n].scale)
           /\ Cardinality(FilesIn(s.dir)) = Len(s.contents)
    /\ pc = "done" =>
           /\ Cardinality(FilesIn(output_dir_ios)) = 13
           /\ Cardinality(FilesIn(output_dir_macos)) = 10

C10_Witness ==
    /\ pc = "done"
    /\ Cardinality(FilesIn(output_dir_ios)) = 13
    /\ Cardinality(FilesIn(output_dir_macos)) = 10

====
